---- MODULE Spec2Model ----
(***************************************************************************)
(* Log retention agent of plantegg/log_cleaner.                            *)
(*                                                                         *)
(*   v1  log_cleaner.py     quota mode: keep the newest keep_percent %     *)
(*   v2  log_cleaner_v2.py  threshold mode: delete until usage <= T %      *)
(*   v3  log_cleaner_v3.py  threshold mode, pathlib based                  *)
(*                                                                         *)
(* One run of one program is a sequence of steps (validate, initial disk   *)
(* check, scan, loop iterations, summary and sweep); the environment       *)
(* (other processes touching, opening, protecting or deleting files) may   *)
(* act between those steps.                                                *)
(*                                                                         *)
(* Paths are the strings the programs handle, written as sequences of      *)
(* characters, so that os.path.join, pathlib's normalisation and           *)
(* str.startswith are computed and not assumed.  The directory "d" stands  *)
(* for a date directory (2024-01-01), the file name "<n>" for "<n>.log".   *)
(* The usage percentage (used / total) * 100 is compared exactly, by       *)
(* cross multiplication; float rounding is not modelled.                   *)
(***************************************************************************)
EXTENDS Integers, Sequences, FiniteSets, TLC

\* ------------------------------------------------------------------ bounds
MaxFiles == 2
MaxEnv == 1
MaxTotal == 150

\* ------------------------------------------------------- program constants
\* is_file_recent(filepath, 24)
Hours == 24
MinPercent == 1
MaxPercent == 99

Now == 2 * Hours

Files == 1..MaxFiles
Versions == {"v1", "v2", "v3"}

\* ------------------------------------------------------------------- state
VARIABLES
    \* command line
    version, log_dirs, percent, dry_run, auto_confirm,
    \* environment
    layout, lsof, fuser, exists, mtime, in_use, locked, datedir, disk, env_left,
    \* program
    pc, exit_status, message, log_files, todo, idx, gate,
    deleted_count, deleted_size, failed_files, skipped_files,
    \* observation of the run
    run, visited, removed, rmdirs, initial, preview,
    \* the answers the deletion confirmation got in this run
    asked,
    \* the file name classifier on its own: a name and what it was taken for
    fname, classified

args == <<version, log_dirs, percent, dry_run, auto_confirm, layout,
          lsof, fuser>>
env == <<exists, mtime, in_use, locked, datedir, disk, env_left>>
prog == <<pc, exit_status, message, log_files, todo, idx, gate,
          deleted_count, deleted_size, failed_files, skipped_files>>
obs == <<run, visited, removed, rmdirs, initial, preview>>
ans == <<asked>>
cls == <<fname, classified>>
vars == <<args, env, prog, obs, ans, cls>>

\* ------------------------------------------------------------------- paths
Ord(c) ==
    CASE c = "." -> 46
      [] c = "/" -> 47
      [] c = "1" -> 49
      [] c = "2" -> 50
      [] c = "3" -> 51
      [] c = "4" -> 52
      [] c = "5" -> 53
      [] c = "a" -> 97
      [] c = "d" -> 100

RECURSIVE StrLess(_, _)
\* Python's str "<": lexicographic by code point.
StrLess(s, t) ==
    IF t = <<>> THEN FALSE
    ELSE IF s = <<>> THEN TRUE
    ELSE IF Ord(Head(s)) # Ord(Head(t)) THEN Ord(Head(s)) < Ord(Head(t))
    ELSE StrLess(Tail(s), Tail(t))

\* str.startswith
startswith(s, prefix) ==
    /\ Len(prefix) <= Len(s)
    /\ SubSeq(s, 1, Len(prefix)) = prefix

RECURSIVE SplitPath(_, _, _)
\* The components of path p between "/" separators (cur: the one being read).
SplitPath(p, cur, acc) ==
    IF p = <<>> THEN Append(acc, cur)
    ELSE IF Head(p) = "/" THEN SplitPath(Tail(p), <<>>, Append(acc, cur))
    ELSE SplitPath(Tail(p), Append(cur, Head(p)), acc)

RECURSIVE JoinParts(_)
JoinParts(parts) ==
    IF parts = <<>> THEN <<>>
    ELSE IF Len(parts) = 1 THEN parts[1]
    ELSE parts[1] \o <<"/">> \o JoinParts(Tail(parts))

\* str(pathlib.Path(p)) for a relative path: empty and "." components are
\* dropped ("./a" -> "a", "a//d" -> "a/d"), ".." is kept.
PurePath(p) ==
    JoinParts(SelectSeq(SplitPath(p, <<>>, <<>>),
                        LAMBDA c : c # <<>> /\ c # <<".">>))

\* os.path.join(a, b) for a relative b
join(a, b) ==
    IF a = <<>> THEN b
    ELSE IF a[Len(a)] = "/" THEN a \o b
    ELSE a \o <<"/">> \o b

\* ------------------------------------------------------------- file system
RootA == <<"a">>
RootA2 == <<"a", "2">>
RootDotA == <<".", "/", "a">>
DateDir == <<"a", "/", "d">>
\* A path that names nothing, and a path that names a regular file.
RootMissing == <<"d">>
RootFile == <<"a", "/", "1">>

NameOf(f) == << <<"1", "2", "3", "4", "5">>[f] >>

\* Where file f really lives (a normalised path).  The layout shifts the
\* files round the directories: with layout 0 the first file is in "a" and
\* the second in "a/d", with layout 2 the first is in "a2" and the second
\* in "a".
DirOf(f) ==
    CASE (f + layout) % 3 = 1 -> RootA
      [] (f + layout) % 3 = 2 -> DateDir
      [] OTHER -> RootA2

RealPath(f) == DirOf(f) \o <<"/">> \o NameOf(f)

SizeOf(f) == 1 + (f % 2)

\* The file a path string names, as the operating system resolves it.
Resolve(p) == CHOOSE f \in Files : RealPath(f) = PurePath(p)

\* Directory dir (normalised) is top itself or lies beneath it.
Beneath(dir, top) ==
    LET n == PurePath(top) IN
    IF ~startswith(dir, n) THEN FALSE
    ELSE IF Len(dir) = Len(n) THEN TRUE
    ELSE dir[Len(n) + 1] = "/"

\* The `root` string os.walk(top) yields for the directory holding f:
\* top itself, or top joined with the sub-directory names.
WalkRoot(top, f) ==
    LET n == PurePath(top)
        d == DirOf(f) IN
    IF Len(d) = Len(n) THEN top
    ELSE join(top, SubSeq(d, Len(n) + 2, Len(d)))

\* The filesystem holding a directory: "a" and "a/d" share one, "a2" has
\* its own.
FsOf(dir) == IF Beneath(PurePath(dir), RootA) THEN "A" ELSE "B"

Filesystems == {"A", "B"}

\* ----------------------------------------------------------------- sorting
\* Tuple order of (mtime, filepath): by mtime, then by path string.
TupleLess(e1, e2) ==
    \/ e1[1] < e2[1]
    \/ e1[1] = e2[1] /\ StrLess(e1[2], e2[2])

RECURSIVE Insert(_, _, _)
\* Stable insertion of e into the sorted list s (descending when reverse).
Insert(e, s, reverse) ==
    IF s = <<>> THEN <<e>>
    ELSE IF (IF reverse THEN TupleLess(Head(s), e) ELSE TupleLess(e, Head(s)))
         THEN <<e>> \o s
    ELSE <<Head(s)>> \o Insert(e, Tail(s), reverse)

RECURSIVE SortFrom(_, _, _)
SortFrom(s, acc, reverse) ==
    IF s = <<>> THEN acc
    ELSE SortFrom(Tail(s), Insert(Head(s), acc, reverse), reverse)

\* list.sort() / list.sort(reverse=True)
sort(s, reverse) == SortFrom(s, <<>>, reverse)

RECURSIVE SetToSeq(_)
SetToSeq(S) ==
    IF S = {} THEN <<>>
    ELSE LET x == CHOOSE y \in S : TRUE IN <<x>> \o SetToSeq(S \ {x})

RECURSIVE reversed(_)
reversed(s) == IF s = <<>> THEN <<>> ELSE Append(reversed(Tail(s)), Head(s))

\* ---------------------------------------------------------------- scanning
\* The path string a program builds for file f found while walking log_dir.
FilePath(v, log_dir, f) ==
    IF v = "v3" THEN PurePath(WalkRoot(log_dir, f)) \o <<"/">> \o NameOf(f)
    ELSE join(WalkRoot(log_dir, f), NameOf(f))

\* The os.path.isfile test left out: files that are gone are listed too
find_log_files_stale(v, log_dir) ==
    sort(SetToSeq({ <<mtime[f], FilePath(v, log_dir, f)>> :
                      f \in { g \in Files : Beneath(DirOf(g), log_dir) } }),
         v = "v1")

\* find_log_files: every regular file beneath log_dir whose name matches,
\* as (mtime, path), sorted (newest first in v1, oldest first in v2, v3).
find_log_files(v, log_dir) ==
    sort(SetToSeq({ <<mtime[f], FilePath(v, log_dir, f)>> :
                      f \in { g \in exists : Beneath(DirOf(g), log_dir) } }),
         v = "v1")

RECURSIVE Collect(_, _)
\* all_log_files.extend(find_log_files(log_dir)) over the configured roots
Collect(v, dirs) ==
    IF dirs = <<>> THEN <<>>
    ELSE find_log_files(v, Head(dirs)) \o Collect(v, Tail(dirs))

\* The sorted candidate list of main().
all_log_files(v, dirs) == sort(Collect(v, dirs), v = "v1")

\* The order in which the deletion loop visits the candidates.
LoopOrder(v, files) == IF v = "v2" THEN reversed(files) ELSE files

\* The quota rounded up instead of down
keep_count_ceiling(total_files, keep_percent) ==
    (total_files * keep_percent + 99) \div 100

\* keep_count = int(total_files * keep_percent / 100)
keep_count(total_files, keep_percent) == (total_files * keep_percent) \div 100

delete_count(total_files, keep_percent) ==
    total_files - keep_count(total_files, keep_percent)

\* A slice taken from the wrong end: log_files[:delete_count]
files_to_delete_head(files, n) == SubSeq(files, 1, n)

\* log_files[-delete_count:]
files_to_delete(files, n) == SubSeq(files, Len(files) - n + 1, Len(files))

\* ------------------------------------------------------------- safety gate
\* The cutoff left out: file_time > datetime.now()
is_file_recent_no_window(p) ==
    LET f == Resolve(p) IN
    IF f \notin exists THEN TRUE
    ELSE mtime[f] > Now

\* The window closed at its far end: file_time >= cutoff_time
is_file_recent_inclusive(p) ==
    LET f == Resolve(p) IN
    IF f \notin exists THEN TRUE
    ELSE mtime[f] >= Now - Hours

\* mtime > now - 24h; a file whose mtime cannot be read counts as recent.
is_file_recent(p) ==
    LET f == Resolve(p) IN
    IF f \notin exists THEN TRUE
    ELSE mtime[f] > Now - Hours

\* A process-inspection command on this machine: installed and working,
\* not installed (FileNotFoundError), or found but not executable
\* (PermissionError, an OSError that is not a FileNotFoundError).
ToolStates == {"ok", "missing", "denied"}

\* subprocess.check_output([tool, file_path]): output (a process holds the
\* file), CalledProcessError (none does), or the error of starting it.
check_output(tool, p) ==
    IF tool # "ok" THEN tool
    ELSE IF Resolve(p) \in exists /\ Resolve(p) \in in_use THEN "holder"
    ELSE "none"

\* The commands is_file_in_use runs, in order.
consulted(v, p) ==
    LET first == check_output(lsof, p) IN
    IF first = "missing" \/ (first = "denied" /\ v # "v3")
    THEN <<"lsof", "fuser">>
    ELSE <<"lsof">>

\* is_file_in_use: lsof first; fuser when starting lsof raised OSError (v2)
\* or FileNotFoundError (v3); any other exception propagates.
in_use_answer(v, p) ==
    LET first == check_output(lsof, p)
        second == check_output(fuser, p) IN
    IF first = "holder" THEN "in_use"
    ELSE IF first = "none" THEN "free"
    ELSE IF first = "denied" /\ v = "v3" THEN "error"
    ELSE IF second = "holder" THEN "in_use"
    ELSE IF second = "denied" /\ v = "v3" THEN "error"
    ELSE "free"

is_file_in_use(p) == in_use_answer(version, p) = "in_use"

\* -------------------------------------------------------------- disk probe
\* get_disk_usage: the sample, or a failure (total of zero bytes, statvfs
\* error): None in v2, an exception in v3.
get_disk_usage(log_dir) ==
    LET d == disk[FsOf(log_dir)] IN
    [ok |-> d.ok /\ d.total > 0, used |-> d.used, total |-> d.total]

\* usage_percent <= threshold
AtOrUnder(sample, threshold) == sample.used * 100 <= threshold * sample.total

\* usage_percent >= threshold
Over_or_equal(sample, threshold) ==
    sample.used * 100 >= threshold * sample.total

\* usage_percent > threshold
Over(sample, threshold) == sample.used * 100 > threshold * sample.total

RECURSIVE InitialScan(_, _, _)
\* The initial check over the roots: [need_cleanup, crashed, samples].
InitialScan(v, dirs, acc) ==
    IF dirs = <<>> THEN acc
    ELSE LET s == get_disk_usage(Head(dirs)) IN
         IF ~s.ok
         THEN IF v = "v3" THEN [acc EXCEPT !.crashed = TRUE]
              ELSE InitialScan(v, Tail(dirs), acc)
         ELSE InitialScan(v, Tail(dirs),
                [acc EXCEPT !.need_cleanup = @ \/ Over(s, percent),
                            !.samples = Append(@, [dir |-> Head(dirs),
                                                   used |-> s.used,
                                                   total |-> s.total])])

RECURSIVE ProbeLoop(_, _, _, _)
\* The in-loop check for one file: every root whose string the path starts
\* with is sampled in turn, until one is at or under the threshold.
ProbeLoop(v, dirs, p, acc) ==
    IF dirs = <<>> THEN acc
    ELSE IF ~startswith(p, Head(dirs)) THEN ProbeLoop(v, Tail(dirs), p, acc)
    ELSE LET s == get_disk_usage(Head(dirs)) IN
         IF ~s.ok
         THEN IF v = "v3" THEN [acc EXCEPT !.crashed = TRUE]
              ELSE ProbeLoop(v, Tail(dirs), p, [acc EXCEPT !.samples = @ + 1])
         ELSE IF AtOrUnder(s, percent)
         THEN [acc EXCEPT !.stop = TRUE, !.samples = @ + 1]
         ELSE ProbeLoop(v, Tail(dirs), p, [acc EXCEPT !.samples = @ + 1])

\* ------------------------------------------------------------ initial state
RootConfigs == { <<RootA>>, <<RootDotA>>, <<RootA, RootA2>>, <<RootA2>> }
KeepPercents == {1, 50, 99}
Thresholds == {50, 70}
MTimes == {0, Now - Hours}
Answers == {"y", "n", "interrupt"}

Volume(u, good) == [total |-> 10, used |-> u, ok |-> good]

DiskChoices ==
    { [A |-> Volume(8, TRUE), B |-> Volume(8, TRUE)],
      [A |-> Volume(8, TRUE), B |-> Volume(5, TRUE)],
      [A |-> Volume(5, TRUE), B |-> Volume(8, TRUE)],
      [A |-> Volume(5, TRUE), B |-> Volume(5, TRUE)],
      [A |-> Volume(8, FALSE), B |-> Volume(8, TRUE)],
      [A |-> Volume(8, TRUE), B |-> Volume(8, FALSE)] }

NotExited == 0 - 1

ProgInit ==
    /\ pc = "start"
    /\ exit_status = NotExited
    /\ message = ""
    /\ log_files = <<>>
    /\ todo = <<>>
    /\ idx = 1
    /\ gate = [idx |-> 0, recent |-> FALSE, held |-> FALSE, consulted |-> <<>>]
    /\ deleted_count = 0
    /\ deleted_size = 0
    /\ failed_files = <<>>
    /\ skipped_files = <<>>

\* The name the classifier is not run on.
NoName == <<>>

\* A run of one of the programs: the command line drawn from the given
\* roots, quotas (v1) and thresholds (v2, v3), every file in place and at
\* least 24 hours old.
InitOver(budget, dry, auto, roots, quotas, thresholds, layouts) ==
    /\ version \in Versions
    /\ log_dirs \in roots
    /\ percent \in (IF version = "v1" THEN quotas ELSE thresholds)
    /\ dry_run \in dry
    /\ auto_confirm \in auto
    /\ layout \in layouts
    /\ lsof = "ok"
    /\ fuser = "ok"
    /\ fname = NoName
    /\ classified = "unknown"
    /\ exists = Files
    /\ mtime \in [Files -> MTimes]
    /\ in_use = {}
    /\ locked = {}
    /\ datedir = TRUE
    /\ disk \in (IF version = "v1"
                 THEN {[A |-> Volume(8, TRUE), B |-> Volume(8, TRUE)]}
                 ELSE DiskChoices)
    /\ env_left = budget
    /\ ProgInit
    /\ run = 1
    /\ visited = <<>>
    /\ removed = <<>>
    /\ rmdirs = 0
    /\ initial = <<>>
    /\ preview = <<>>
    /\ asked = <<>>

InitWith(budget, dry, auto) ==
    InitOver(budget, dry, auto, RootConfigs, KeepPercents, Thresholds, {0})

Init == InitWith(MaxEnv, BOOLEAN, BOOLEAN)

\* ------------------------------------------------------------------ helpers
\* os.path.isdir / Path.exists of a configured root
isdir(dir) ==
    \/ PurePath(dir) \in {RootA, RootA2}
    \/ PurePath(dir) = DateDir /\ datedir

\* Path(dir).exists(): a directory or a regular file
path_exists(dir) ==
    \/ isdir(dir)
    \/ \E f \in exists : RealPath(f) = PurePath(dir)

Exit(status, why) ==
    /\ pc' = "done"
    /\ exit_status' = status
    /\ message' = why

\* The filesystem after file f is unlinked.
Unlinked(f) == [disk EXCEPT ![FsOf(DirOf(f))].used = @ - SizeOf(f)]

\* What the run did at one candidate.
Visit(p, what, n, counted) ==
    [path |-> p, file |-> Resolve(p), outcome |-> what, samples |-> n,
     counted |-> counted, gate |-> gate, present |-> Resolve(p) \in exists,
     recent |-> Resolve(p) \in exists /\ Now - mtime[Resolve(p)] < Hours,
     held |-> Resolve(p) \in exists /\ Resolve(p) \in in_use]

\* Where the loop is after candidate i of n: at the next candidate, or past
\* the list.
LoopNext(i, n, at) == IF i >= n THEN "finish" ELSE at

\* An error that ends the loop
LoopAfterError_break(i, n, at) == "finish"

\* The same after a deletion error: the except clauses fall through to the
\* next iteration.
LoopAfterError(i, n, at) == LoopNext(i, n, at)

\* The loop moves on to the next candidate, or ends with the list.
Advance ==
    /\ idx' = idx + 1
    /\ pc' = LoopNext(idx, Len(todo), IF version = "v1" THEN "remove" ELSE "gate")

AdvanceAfterError ==
    /\ idx' = idx + 1
    /\ pc' = LoopAfterError(idx, Len(todo),
                            IF version = "v1" THEN "remove" ELSE "gate")

\* ------------------------------------------------------------------ actions
\* Argument validation (v1, v2: os.path.isdir of every path, then the
\* percentage; v3: the percentage, then Path.exists of every path).
Validate ==
    /\ pc = "start"
    /\ LET bad_dir == \E i \in 1..Len(log_dirs) :
                          IF version = "v3" THEN ~path_exists(log_dirs[i])
                          ELSE ~isdir(log_dirs[i])
           bad_percent == ~(MinPercent <= percent /\ percent <= MaxPercent)
       IN  IF bad_dir \/ bad_percent
           THEN Exit(1, IF version = "v3"
                        THEN (IF bad_percent THEN "bad_percent" ELSE "bad_dir")
                        ELSE (IF bad_dir THEN "bad_dir" ELSE "bad_percent"))
           ELSE /\ pc' = IF version = "v1" THEN "scan" ELSE "check"
                /\ UNCHANGED <<exit_status, message>>
    /\ UNCHANGED <<args, cls, asked, env, obs, log_files, todo, idx, gate, deleted_count,
                   deleted_size, failed_files, skipped_files>>

\* Threshold mode: the initial check of every root's usage.
InitialCheck ==
    /\ pc = "check"
    /\ LET r == InitialScan(version, log_dirs,
                    [need_cleanup |-> FALSE, crashed |-> FALSE,
                     samples |-> <<>>])
       IN  /\ initial' = r.samples
           /\ IF r.crashed THEN Exit(1, "traceback")
              ELSE IF ~r.need_cleanup THEN Exit(0, "nocleanup")
              ELSE pc' = "scan" /\ UNCHANGED <<exit_status, message>>
    /\ UNCHANGED <<args, cls, asked, env, log_files, todo, idx, gate, deleted_count,
                   deleted_size, failed_files, skipped_files,
                   run, visited, removed, rmdirs, preview>>

\* No file: the value of "the file that vanished during the scan" when none
\* did.
NoFile == 0

\* The scan of all roots, the sort and, in quota mode, the selection of the
\* deletion set and its listing (which ends a --dry-run).  A file another
\* process deletes between the regular-file test and the read of its
\* modification time makes getmtime / stat raise, which nothing catches.
Scan ==
    /\ pc = "scan"
    /\ LET files == all_log_files(version, log_dirs)
           n == delete_count(Len(files), percent)
           found == { Resolve(files[k][2]) : k \in 1..Len(files) }
       IN  \E raced \in (IF env_left > 0 THEN found \cup {NoFile}
                         ELSE {NoFile}) :
           IF raced # NoFile
           THEN /\ exists' = exists \ {raced}
                /\ disk' = Unlinked(raced)
                /\ env_left' = env_left - 1
                /\ Exit(1, "scan_traceback")
                /\ UNCHANGED <<log_files, todo, preview>>
           ELSE /\ log_files' = files
                /\ UNCHANGED <<exists, disk, env_left>>
                /\ IF files = <<>>
                   THEN Exit(0, "nofiles") /\ UNCHANGED <<todo, preview>>
                   ELSE IF version # "v1"
                   THEN /\ todo' = LoopOrder(version, files)
                        /\ pc' = "gate"
                        /\ UNCHANGED <<exit_status, message, preview>>
                   ELSE IF n = 0
                   THEN Exit(0, "nothing") /\ UNCHANGED <<todo, preview>>
                   ELSE /\ todo' = files_to_delete(files, n)
                        /\ preview' = [i \in 1..n |->
                                          files_to_delete(files, n)[i][2]]
                        /\ IF dry_run THEN Exit(0, "dryrun")
                           ELSE pc' = "confirm"
                                /\ UNCHANGED <<exit_status, message>>
    /\ UNCHANGED <<args, cls, asked, mtime, in_use, locked, datedir,
                   idx, gate, deleted_count, deleted_size,
                   failed_files, skipped_files,
                   run, visited, removed, rmdirs, initial>>

\* Quota mode: the confirmation before the deletion loop.
Confirm ==
    /\ pc = "confirm"
    /\ \E answer \in (IF auto_confirm THEN {"y"} ELSE Answers) :
          /\ asked' = IF auto_confirm THEN asked ELSE Append(asked, answer)
          /\ IF answer = "y"
             THEN pc' = "remove" /\ UNCHANGED <<exit_status, message>>
             ELSE Exit(0, "cancelled")
    /\ UNCHANGED <<args, cls, env, obs, log_files, todo, idx, gate, deleted_count,
                   deleted_size, failed_files, skipped_files>>

\* Quota mode: one iteration of the deletion loop.
RemoveStep ==
    /\ pc = "remove"
    /\ LET p == todo[idx][2]
           f == Resolve(p)
       IN  /\ IF f \notin exists
              THEN /\ visited' = Append(visited, Visit(p, "NotFound", 0, FALSE))
                   /\ UNCHANGED <<exists, disk, deleted_count, deleted_size,
                                  failed_files, removed>>
                   /\ AdvanceAfterError
              ELSE IF f \in locked
              THEN /\ visited' = Append(visited, Visit(p, "Failed", 0, FALSE))
                   /\ failed_files' = Append(failed_files, p)
                   /\ UNCHANGED <<exists, disk, deleted_count, deleted_size,
                                  removed>>
                   /\ AdvanceAfterError
              ELSE /\ visited' = Append(visited, Visit(p, "Deleted", 0, TRUE))
                   /\ exists' = exists \ {f}
                   /\ disk' = Unlinked(f)
                   /\ removed' = Append(removed, f)
                   /\ deleted_count' = deleted_count + 1
                   /\ deleted_size' = deleted_size + SizeOf(f)
                   /\ UNCHANGED failed_files
                   /\ Advance
    /\ UNCHANGED <<args, cls, asked, mtime, in_use, locked, datedir, env_left,
                   exit_status, message, log_files, todo, gate, skipped_files,
                   run, rmdirs, initial, preview>>

\* What is true of file f when the gate looks at it.
RecentNow(f) == f \in exists /\ Now - mtime[f] < Hours
HeldNow(f) == f \in exists /\ f \in in_use

\* Threshold mode: the safety gate at the current candidate.
GateStep ==
    /\ pc = "gate"
    /\ LET p == todo[idx][2]
           f == Resolve(p)
           g == [idx |-> idx, recent |-> RecentNow(f), held |-> HeldNow(f),
                 consulted |-> IF is_file_recent(p) THEN <<>>
                               ELSE consulted(version, p)]
       IN  /\ gate' = g
           /\ IF is_file_recent(p)
              THEN /\ skipped_files' = Append(skipped_files, <<p, "recent">>)
                   /\ visited' = Append(visited,
                          [Visit(p, "SkippedRecent", 0, FALSE) EXCEPT !.gate = g])
                   /\ Advance
                   /\ UNCHANGED <<exit_status, message>>
              ELSE IF in_use_answer(version, p) = "error"
              THEN \* v3: PermissionError out of is_file_in_use, unhandled
                   /\ Exit(1, "in_use_traceback")
                   /\ UNCHANGED <<skipped_files, visited, idx>>
              ELSE IF is_file_in_use(p)
              THEN /\ skipped_files' = Append(skipped_files, <<p, "in_use">>)
                   /\ visited' = Append(visited,
                          [Visit(p, "SkippedInUse", 0, FALSE) EXCEPT !.gate = g])
                   /\ Advance
                   /\ UNCHANGED <<exit_status, message>>
              ELSE /\ pc' = "delete"
                   /\ UNCHANGED <<skipped_files, visited, idx,
                                  exit_status, message>>
    /\ UNCHANGED <<args, cls, asked, env, log_files, todo,
                   deleted_count, deleted_size, failed_files,
                   run, removed, rmdirs, initial, preview>>

\* Threshold mode: the usage check and the deletion of a candidate that
\* passed the gate.  In v3 the file may vanish between stat and unlink.
DeleteStep ==
    /\ pc = "delete"
    /\ LET p == todo[idx][2]
           f == Resolve(p)
           r == ProbeLoop(version, log_dirs, p,
                          [stop |-> FALSE, crashed |-> FALSE, samples |-> 0])
           live == ~r.crashed /\ ~r.stop /\ f \in exists /\ ~dry_run
           ask == live /\ version = "v2" /\ ~auto_confirm /\ deleted_count = 0
       IN  \E answer \in (IF ask THEN Answers ELSE {"y"}),
              raced \in (IF live /\ version = "v3" /\ env_left > 0
                         THEN BOOLEAN ELSE {FALSE}) :
           /\ asked' = IF ask THEN Append(asked, answer) ELSE asked
           /\ IF r.crashed
              THEN /\ Exit(1, "traceback")
                   /\ UNCHANGED <<exists, disk, env_left, idx, deleted_count,
                                  deleted_size, failed_files, visited, removed,
                                  preview>>
              ELSE IF r.stop
              THEN /\ visited' = Append(visited, Visit(p, "Stopped", r.samples, FALSE))
                   /\ pc' = "finish"
                   /\ UNCHANGED <<exists, disk, env_left, idx, exit_status, message,
                                  deleted_count, deleted_size, failed_files,
                                  removed, preview>>
              ELSE IF f \notin exists
              THEN \* v2: "file does not exist"; v3: stat raises OSError
                   /\ visited' = Append(visited,
                          Visit(p, IF version = "v2" THEN "NotFound" ELSE "InfoFailed",
                                r.samples, FALSE))
                   /\ AdvanceAfterError
                   /\ UNCHANGED <<exists, disk, env_left, exit_status, message,
                                  deleted_count, deleted_size, failed_files,
                                  removed, preview>>
              ELSE IF dry_run
              THEN /\ visited' = Append(visited, Visit(p, "Previewed", r.samples, TRUE))
                   /\ preview' = Append(preview, p)
                   /\ deleted_count' = deleted_count + 1
                   /\ deleted_size' = deleted_size + SizeOf(f)
                   /\ Advance
                   /\ UNCHANGED <<exists, disk, env_left, exit_status, message,
                                  failed_files, removed>>
              ELSE IF answer # "y"
              THEN /\ Exit(0, "cancelled")
                   /\ UNCHANGED <<exists, disk, env_left, idx, deleted_count,
                                  deleted_size, failed_files, visited, removed,
                                  preview>>
              ELSE IF raced
              THEN \* v3: counted, then unlink raises FileNotFoundError
                   /\ exists' = exists \ {f}
                   /\ disk' = Unlinked(f)
                   /\ env_left' = env_left - 1
                   /\ visited' = Append(visited, Visit(p, "NotFound", r.samples, TRUE))
                   /\ deleted_count' = deleted_count + 1
                   /\ deleted_size' = deleted_size + SizeOf(f)
                   /\ AdvanceAfterError
                   /\ UNCHANGED <<exit_status, message, failed_files, removed,
                                  preview>>
              ELSE IF f \in locked
              THEN \* v2: remove raises before the counters; v3: after them
                   /\ visited' = Append(visited,
                          Visit(p, "Failed", r.samples, version = "v3"))
                   /\ failed_files' = Append(failed_files, p)
                   /\ deleted_count' = deleted_count + (IF version = "v3" THEN 1 ELSE 0)
                   /\ deleted_size' =
                          deleted_size + (IF version = "v3" THEN SizeOf(f) ELSE 0)
                   /\ AdvanceAfterError
                   /\ UNCHANGED <<exists, disk, env_left, exit_status, message,
                                  removed, preview>>
              ELSE /\ exists' = exists \ {f}
                   /\ disk' = Unlinked(f)
                   /\ removed' = Append(removed, f)
                   /\ visited' = Append(visited, Visit(p, "Deleted", r.samples, TRUE))
                   /\ deleted_count' = deleted_count + 1
                   /\ deleted_size' = deleted_size + SizeOf(f)
                   /\ Advance
                   /\ UNCHANGED <<env_left, exit_status, message, failed_files,
                                  preview>>
    /\ UNCHANGED <<args, cls, mtime, in_use, locked, datedir, log_files, todo, gate,
                   skipped_files, run, rmdirs, initial>>

\* clean_empty_date_dirs over all roots: the date directory goes when it
\* lies under a configured root and holds nothing.
SweepRemoves ==
    /\ datedir
    /\ \E i \in 1..Len(log_dirs) :
          /\ Beneath(DateDir, log_dirs[i])
          /\ PurePath(log_dirs[i]) # DateDir
    /\ ~\E f \in exists : DirOf(f) = DateDir

\* The offer made whatever --dry-run says
SweepOffered_any_run == version \in {"v1", "v2"} /\ ~auto_confirm

\* Whether the run offers the sweep of empty date directories.
SweepOffered ==
    CASE version = "v1" -> ~auto_confirm
      [] version = "v2" -> ~dry_run /\ ~auto_confirm
      [] OTHER -> FALSE

\* The summary, the final usage report (v2, v3) and the offer to sweep
\* empty date directories (v1, v2).
Finish ==
    /\ pc = "finish"
    /\ LET final_crash ==
               /\ version = "v3"
               /\ \E i \in 1..Len(log_dirs) : ~get_disk_usage(log_dirs[i]).ok
       IN  \E answer \in (IF SweepOffered /\ ~final_crash
                          THEN Answers ELSE {"n"}) :
           IF final_crash
           THEN Exit(1, "traceback") /\ UNCHANGED <<datedir, rmdirs>>
           ELSE /\ Exit(0, "finished")
                /\ IF answer = "y" /\ SweepRemoves
                   THEN datedir' = FALSE /\ rmdirs' = rmdirs + 1
                   ELSE UNCHANGED <<datedir, rmdirs>>
    /\ UNCHANGED <<args, cls, asked, exists, mtime, in_use, locked, disk, env_left,
                   log_files, todo, idx, gate, deleted_count, deleted_size,
                   failed_files, skipped_files,
                   run, visited, removed, initial, preview>>

\* -------------------------------------------------------------- environment
\* Other processes act between the steps of the run.
EnvStep ==
    /\ env_left > 0
    /\ pc \in {"scan", "remove", "gate", "delete"}
    /\ env_left' = env_left - 1

\* The file whose attributes the run reads next: in the loop, the current
\* candidate.  A change to a later candidate's attributes is read only at
\* that candidate's turn, so it is taken to happen then; a change to any
\* other file's attributes is never read.  Once the gate has passed a file
\* (pc = "delete") its modification time and holders are not read again.
Current(f) ==
    /\ f \in exists
    /\ pc # "scan"
    /\ Resolve(todo[idx][2]) = f

\* Before the scan: a file the scan will read the modification time of.
Scanned(f) ==
    /\ f \in exists
    /\ pc = "scan"
    /\ \E i \in 1..Len(log_dirs) : Beneath(DirOf(f), log_dirs[i])

\* A process writes to file f.
Touch(f) ==
    /\ EnvStep
    /\ pc # "delete"
    /\ IF pc = "scan" THEN Scanned(f) ELSE Current(f)
    /\ mtime' = [mtime EXCEPT ![f] = Now]
    /\ UNCHANGED <<args, cls, asked, prog, obs, exists, in_use, locked, datedir, disk>>

\* A process opens file f and holds it.
Open(f) ==
    /\ EnvStep
    /\ pc # "delete"
    /\ Current(f)
    /\ in_use' = in_use \cup {f}
    /\ UNCHANGED <<args, cls, asked, prog, obs, exists, mtime, locked, datedir, disk>>

\* File f is protected: removing it raises PermissionError.
Protect(f) ==
    /\ EnvStep
    /\ Current(f)
    /\ locked' = locked \cup {f}
    /\ UNCHANGED <<args, cls, asked, prog, obs, exists, mtime, in_use, datedir, disk>>

\* Another process deletes file f.
Vanish(f) ==
    /\ EnvStep
    /\ IF pc = "scan" THEN Scanned(f)
       ELSE f \in exists /\ \E j \in idx..Len(todo) : Resolve(todo[j][2]) = f
    /\ exists' = exists \ {f}
    /\ disk' = Unlinked(f)
    /\ UNCHANGED <<args, cls, asked, prog, obs, mtime, in_use, locked, datedir>>

\* ------------------------------------------------------------ specification
Program ==
    \/ Validate
    \/ InitialCheck
    \/ Scan
    \/ Confirm
    \/ RemoveStep
    \/ GateStep
    \/ DeleteStep
    \/ Finish

Environment ==
    \E f \in Files : Touch(f) \/ Open(f) \/ Protect(f) \/ Vanish(f)

Next == Program \/ Environment

Spec == Init /\ [][Next]_vars

\* The same command line is run a second time, without --dry-run: a preview
\* followed by the real thing, or a live run repeated.
Rerun ==
    /\ pc = "done"
    /\ run = 1
    /\ exit_status = 0
    /\ run' = 2
    /\ dry_run' = FALSE
    /\ pc' = "start"
    /\ exit_status' = NotExited
    /\ message' = ""
    /\ log_files' = <<>>
    /\ todo' = <<>>
    /\ idx' = 1
    /\ gate' = [idx |-> 0, recent |-> FALSE, held |-> FALSE,
                consulted |-> <<>>]
    /\ deleted_count' = 0
    /\ deleted_size' = 0
    /\ failed_files' = <<>>
    /\ skipped_files' = <<>>
    /\ visited' = <<>>
    /\ initial' = <<>>
    /\ asked' = <<>>
    /\ UNCHANGED <<version, log_dirs, percent, auto_confirm, layout,
                   lsof, fuser, env,
                   removed, rmdirs, preview, cls>>

InitFidelity == InitWith(0, {TRUE}, {TRUE})

NextFidelity == Program \/ Rerun

SpecFidelity == InitFidelity /\ [][NextFidelity]_vars

\* The programs on a quiet file system, over a wider range of command lines:
\* a root listed twice, a root nested in another, a path that does not
\* exist, a path that names a regular file, percentages outside 1..99.
QuietRoots ==
    { <<RootA>>, <<RootA, RootA2>>, <<RootA, RootA>>, <<RootA, DateDir>>,
      <<RootMissing>>, <<RootFile>> }
QuietQuotas == KeepPercents \cup {MinPercent - 1, MaxPercent + 1}
QuietThresholds == {MinPercent - 1, 50, MaxPercent + 1}

InitQuiet ==
    InitOver(0, BOOLEAN, {TRUE}, QuietRoots, QuietQuotas, QuietThresholds,
             {0, 2})

NextQuiet == Program \/ Rerun

SpecQuiet == InitQuiet /\ [][NextQuiet]_vars

\* The quota program on a quiet file system, over every keep percentage
\* the command line can carry around the accepted range, with roots that
\* hold no, one or several candidates.
QuotaRoots == { <<RootA>>, <<RootA2>>, <<RootA, RootA2>>, <<RootA, RootA>> }
QuotaPercents == (MinPercent - 1)..(MaxPercent + 1)

InitQuota ==
    /\ InitOver(0, BOOLEAN, BOOLEAN, QuotaRoots, QuotaPercents, {50}, {0, 2})
    /\ version = "v1"

NextQuota == Validate \/ Scan \/ Confirm \/ RemoveStep \/ Finish

SpecQuota == InitQuota /\ [][NextQuota]_vars

\* ------------------------------------------------------- file name classifier
\* File names as the scanners test them, character by character.
LogExt == <<".", "l", "o", "g">>
TxtExt == <<".", "t", "x", "t">>
Date20 == <<".", "2", "0", "2", "5", "-", "1", "2", "-", "0", "1">>
Date19 == <<".", "1", "9", "9", "9", "-", "1", "2", "-", "0", "1">>
Hour == <<"-", "0", "2">>
HalfHour == <<"-", "0">>
Stems == { <<"s">>, <<"1">>, <<"l", "o", "g">> }
Tails ==
    { LogExt, TxtExt, LogExt \o Date20, LogExt \o Date20 \o Hour,
      LogExt \o Date19, LogExt \o Date19 \o Hour, LogExt \o Date20 \o HalfHour,
      Date20 \o <<".", "0">> \o LogExt }
Names == { stem \o tail : stem \in Stems, tail \in Tails }

\* \d
IsDigit(c) == c \in {"0", "1", "2", "3", "4", "5", "6", "7", "8", "9"}

\* \d+ over the whole of s
AllDigits(s) == s # <<>> /\ \A i \in 1..Len(s) : IsDigit(s[i])

\* str.endswith
endswith(s, suffix) ==
    IF Len(suffix) > Len(s) THEN FALSE
    ELSE SubSeq(s, Len(s) - Len(suffix) + 1, Len(s)) = suffix

\* 20\d{2}-\d{2}-\d{2} over the whole of d
IsDate20(d) ==
    IF Len(d) # 10 THEN FALSE
    ELSE /\ d[1] = "2" /\ d[2] = "0" /\ IsDigit(d[3]) /\ IsDigit(d[4])
         /\ d[5] = "-" /\ IsDigit(d[6]) /\ IsDigit(d[7])
         /\ d[8] = "-" /\ IsDigit(d[9]) /\ IsDigit(d[10])

\* re.match(r'.*\.log\.20\d{2}-\d{2}-\d{2}$', file)
match_log_date(file) ==
    LET n == Len(file) IN
    IF n < 15 THEN FALSE
    ELSE /\ SubSeq(file, n - 14, n - 10) = LogExt \o <<".">>
         /\ IsDate20(SubSeq(file, n - 9, n))

\* re.match(r'.*\.log\.20\d{2}-\d{2}-\d{2}-\d{2}$', file)
match_log_date_hour(file) ==
    LET n == Len(file) IN
    IF n < 18 THEN FALSE
    ELSE /\ SubSeq(file, n - 17, n - 13) = LogExt \o <<".">>
         /\ IsDate20(SubSeq(file, n - 12, n - 3))
         /\ file[n - 2] = "-" /\ IsDigit(file[n - 1]) /\ IsDigit(file[n])

\* re.match(r'<word>\.20\d{2}-\d{2}-\d{2}\.\d+\.log$', file), for the words
\* log and trace
match_dated(word, file) ==
    LET n == Len(file)
        k == Len(word) IN
    IF n < k + 17 THEN FALSE
    ELSE /\ SubSeq(file, 1, k + 1) = word \o <<".">>
         /\ IsDate20(SubSeq(file, k + 2, k + 11))
         /\ file[k + 12] = "."
         /\ AllDigits(SubSeq(file, k + 13, n - 4))
         /\ endswith(file, LogExt)

\* re.match(r'\d+\.log$', file)
match_number(file) ==
    IF Len(file) < 5 THEN FALSE
    ELSE AllDigits(SubSeq(file, 1, Len(file) - 4)) /\ endswith(file, LogExt)

\* The test find_log_files applies to a file name (names holding a newline
\* are left out).
is_log_name(v, file) ==
    \/ endswith(file, LogExt)
    \/ v # "v1" /\ match_log_date_hour(file)
    \/ v # "v1" /\ match_log_date(file)
    \/ match_dated(<<"l", "o", "g">>, file)
    \/ match_dated(<<"t", "r", "a", "c", "e">>, file)
    \/ match_number(file)

\* One of the scanners meets a file of the given name.
Classify ==
    /\ fname # NoName
    /\ classified = "unknown"
    /\ classified' = IF is_log_name(version, fname) THEN "log" ELSE "other"
    /\ UNCHANGED <<args, env, prog, obs, ans, fname>>

InitClassify ==
    /\ version \in Versions
    /\ fname \in Names
    /\ classified = "unknown"
    /\ log_dirs = <<RootA>>
    /\ percent = 50
    /\ dry_run = TRUE
    /\ auto_confirm = FALSE
    /\ layout = 0
    /\ lsof = "ok"
    /\ fuser = "ok"
    /\ exists = Files
    /\ mtime = [f \in Files |-> 0]
    /\ in_use = {}
    /\ locked = {}
    /\ datedir = TRUE
    /\ disk = [A |-> Volume(8, TRUE), B |-> Volume(8, TRUE)]
    /\ env_left = 0
    /\ ProgInit
    /\ run = 1
    /\ visited = <<>>
    /\ removed = <<>>
    /\ rmdirs = 0
    /\ initial = <<>>
    /\ preview = <<>>
    /\ asked = <<>>

SpecClassify == InitClassify /\ [][Classify]_vars

\* ------------------------------------------------- the in-use check at work
\* Threshold runs over one root on an undisturbed machine where each of the
\* two inspection commands may work, be absent, or be impossible to start,
\* and any of the files may be held open.
InitInUse ==
    /\ version \in {"v2", "v3"}
    /\ log_dirs = <<RootA>>
    /\ percent = 50
    /\ dry_run \in BOOLEAN
    /\ auto_confirm = TRUE
    /\ layout \in {0, 2}
    /\ lsof \in ToolStates
    /\ fuser \in ToolStates
    /\ fname = NoName
    /\ classified = "unknown"
    /\ exists = Files
    /\ mtime \in [Files -> MTimes]
    /\ in_use \in SUBSET Files
    /\ locked = {}
    /\ datedir = TRUE
    /\ disk = [A |-> Volume(8, TRUE), B |-> Volume(8, TRUE)]
    /\ env_left = 0
    /\ ProgInit
    /\ run = 1
    /\ visited = <<>>
    /\ removed = <<>>
    /\ rmdirs = 0
    /\ initial = <<>>
    /\ preview = <<>>
    /\ asked = <<>>

NextInUse ==
    Validate \/ InitialCheck \/ Scan \/ GateStep \/ DeleteStep \/ Finish

SpecInUse == InitInUse /\ [][NextInUse]_vars

\* ================================================================== claims
\* The candidates the quota run keeps: the head of the newest-first list.
Kept == SubSeq(log_files, 1, Len(log_files) - Len(todo))

\* C1: quota mode selection.  Once the quota run has scanned, with
\* totalCount candidates and keepCount = totalCount - deleteCount kept:
\* keepCount is floor(totalCount * keepPercent / 100), the deletion list
\* holds the remaining deleteCount entries, kept and deletion list together
\* are the candidate list, and no kept entry has a modification time
\* strictly older than an entry of the deletion list.
QuotaSelection ==
    (version = "v1" /\ log_files # <<>>) =>
        LET total == Len(log_files)
            del == Len(todo)
            keep == total - del
        IN  /\ keep >= 0
            /\ keep * 100 <= total * percent
            /\ total * percent < (keep + 1) * 100
            /\ Kept \o todo = log_files
            /\ \A i \in 1..keep : \A j \in 1..del :
                   Kept[i][1] >= todo[j][1]

\* A quota run that kept the newer of two candidates of different ages and
\* removed the older one.
QuotaSelectionWitness ==
    /\ version = "v1"
    /\ pc = "done"
    /\ Len(log_files) = 2
    /\ Len(todo) = 1
    /\ Len(removed) = 1
    /\ log_files[1][1] > log_files[2][1]

RECURSIVE SizeSum(_)
SizeSum(fs) == IF fs = <<>> THEN 0 ELSE SizeOf(Head(fs)) + SizeSum(Tail(fs))

\* C2: deletion accounting.  At every point of a live run, in every mode,
\* deletedCount is the number of files whose removal succeeded and
\* deletedSize the sum of their sizes.
DeletionAccounting ==
    ~dry_run =>
        /\ deleted_count = Len(removed)
        /\ deleted_size = SizeSum(removed)

\* C4: the safety gate in quota mode.  A live quota run never removes a
\* file that, when its turn comes, was modified less than 24 hours ago or
\* is held open by another process.
QuotaGate ==
    version = "v1" =>
        \A k \in 1..Len(visited) :
            visited[k].outcome = "Deleted" =>
                ~visited[k].recent /\ ~visited[k].held

\* C5: threshold mode deletes oldest first.  Whenever a candidate has been
\* removed, every candidate with a strictly older modification time was
\* visited before it.
OldestFirst ==
    version # "v1" =>
        \A k \in 1..Len(visited) :
            visited[k].outcome = "Deleted" =>
                \A j \in 1..Len(todo) :
                    todo[j][1] < todo[k][1] => j < k

\* C6: the threshold stop condition.  Every removal (or previewed removal)
\* is preceded by a fresh usage sample taken at that candidate, and a
\* candidate at which a sample was at or under the threshold is the last
\* one visited: it is not removed and the loop has ended.
StopCondition ==
    version # "v1" =>
        \A k \in 1..Len(visited) :
            /\ visited[k].outcome \in {"Deleted", "Previewed"} =>
                   visited[k].samples >= 1
            /\ visited[k].outcome = "Stopped" =>
                   /\ k = Len(visited)
                   /\ visited[k].file \notin
                          {removed[i] : i \in 1..Len(removed)}
                   /\ pc \in {"finish", "done"}

\* The failure outcomes of a deletion.
Failures == {"Failed", "NotFound", "InfoFailed"}

\* C3: the threshold-mode safety gate.  A file is removed only at the
\* deletion step of its own turn, after the gate looked at it in that turn
\* and found it neither recently modified nor held open; a gate step at a
\* recent or held file blocks it; and a blocked file is recorded as skipped
\* with its reason, nothing is removed, the run does not stop, and the loop
\* goes on to the next candidate.
GateRespected ==
    [][ LET p == todo[idx][2]
            f == Resolve(p)
            gate_step == pc = "gate" /\ gate'.idx = idx /\ gate.idx # idx
            blocked == pc = "gate" /\ Len(skipped_files') > Len(skipped_files)
        IN  /\ (version # "v1" /\ removed' # removed) =>
                   /\ pc = "delete"
                   /\ removed' = Append(removed, f)
                   /\ gate.idx = idx
                   /\ ~gate.recent
                   /\ ~gate.held
            /\ (gate_step /\ (RecentNow(f) \/ HeldNow(f))) => blocked
            /\ blocked =>
                   /\ \E why \in {"recent", "in_use"} :
                          skipped_files' = Append(skipped_files, <<p, why>>)
                   /\ exists' = exists
                   /\ removed' = removed
                   /\ exit_status' = NotExited
                   /\ message' = message
                   /\ idx' = idx + 1
                   /\ pc' = IF idx < Len(todo) THEN "gate" ELSE "finish"
      ]_vars

\* A threshold run that skipped a blocked file and removed the next one.
GateRespectedWitness ==
    /\ version # "v1"
    /\ \E k \in 1..Len(visited) - 1 :
          /\ visited[k].outcome \in {"SkippedRecent", "SkippedInUse"}
          /\ visited[k].gate.recent \/ visited[k].gate.held
          /\ visited[k + 1].outcome = "Deleted"

\* C7: dry-run fidelity.  The files a --dry-run run reports, in order, are
\* the files the same command line removes when run live on the same
\* file system.
DryRunFidelity ==
    (run = 2 /\ pc = "done") =>
        [i \in 1..Len(preview) |-> Resolve(preview[i])] = removed

\* C8: a --dry-run run changes nothing.  No step of the program under
\* --dry-run removes a file or a directory, the sweep included.
DryRunFrame ==
    [][ (dry_run /\ env_left' = env_left) =>
            /\ exists' = exists
            /\ datedir' = datedir
            /\ disk' = disk
            /\ removed' = removed
            /\ rmdirs' = rmdirs
      ]_vars

\* A threshold dry run that previewed a file and ended with an empty date
\* directory under a configured root still in place.
DryRunFrameWitness ==
    /\ dry_run
    /\ version = "v2"
    /\ pc = "done"
    /\ message = "finished"
    /\ Len(preview) >= 1
    /\ datedir
    /\ \E i \in 1..Len(log_dirs) : Beneath(DateDir, log_dirs[i])
    /\ ~\E f \in exists : DirOf(f) = DateDir

\* C9: the initial check of threshold mode.  When every root is sampled:
\* if all are at or under the threshold the step ends the run with
\* "no cleanup needed" and status 0, nothing gated, skipped or removed;
\* if one is strictly over, the run goes on to scan for the loop.
InitialCheckDecides ==
    [][ (pc = "check" /\ \A i \in 1..Len(log_dirs) :
                            disk[FsOf(log_dirs[i])].ok) =>
            IF \A i \in 1..Len(log_dirs) :
                   disk[FsOf(log_dirs[i])].used * 100
                       <= percent * disk[FsOf(log_dirs[i])].total
            THEN /\ pc' = "done"
                 /\ exit_status' = 0
                 /\ message' = "nocleanup"
                 /\ visited' = <<>>
                 /\ skipped_files' = <<>>
                 /\ removed' = <<>>
                 /\ gate'.idx = 0
                 /\ exists' = exists
            ELSE /\ pc' = "scan"
                 /\ exit_status' = NotExited
      ]_vars

\* A run that ended with "no cleanup needed" on a root exactly at the
\* threshold.
InitialCheckWitness ==
    /\ message = "nocleanup"
    /\ exit_status = 0
    /\ \E i \in 1..Len(initial) :
          initial[i].used * 100 = percent * initial[i].total

\* C10: a failed deletion is not fatal.  The step at which a deletion fails
\* leaves the run going: the failure is recorded (in failed_files when the
\* remove raised), nothing is removed, and the loop is at the next
\* candidate, or past the list; and a run with a failure that ends, ends
\* with status 0.
FailureNotFatal ==
    /\ [](( /\ pc = "done"
            /\ \E k \in 1..Len(visited) : visited[k].outcome \in Failures )
          => exit_status = 0)
    /\ [][ LET n == Len(visited')
           IN  (n = Len(visited) + 1 /\ visited'[n].outcome \in Failures) =>
                   /\ exit_status' = NotExited
                   /\ removed' = removed
                   /\ visited'[n].path = todo[idx][2]
                   /\ visited'[n].outcome = "Failed" =>
                          failed_files' = Append(failed_files, todo[idx][2])
                   /\ idx' = idx + 1
                   /\ pc' = IF idx < Len(todo)
                            THEN (IF version = "v1" THEN "remove" ELSE "gate")
                            ELSE "finish"
         ]_vars

\* A run that failed to remove one file, removed the next, and ended with
\* status 0.
FailureNotFatalWitness ==
    /\ pc = "done"
    /\ exit_status = 0
    /\ \E k \in 1..Len(visited) - 1 :
          /\ visited[k].outcome = "Failed"
          /\ visited[k + 1].outcome = "Deleted"

\* The files under the configured roots that the scan finds in place.
Managed == { f \in exists : \E i \in 1..Len(log_dirs) :
                                Beneath(DirOf(f), log_dirs[i]) }

\* C11: the candidate list has no duplicates and drops nothing.  The list
\* the scan step leaves holds no path twice, names exactly the managed files in
\* place under the configured roots, and its length (totalCount) is the
\* number of those files.
NoDuplicateCandidates ==
    [][ (pc = "scan" /\ pc' # "scan") =>
            LET files == log_files'
                n == Len(files)
            IN  /\ \A i \in 1..n : \A j \in 1..n :
                       i # j => files[i][2] # files[j][2]
                /\ { Resolve(files[i][2]) : i \in 1..n } = Managed
                /\ n = Cardinality(Managed)
      ]_vars

\* The command lines the validation has to refuse.
BadArguments ==
    \/ \E i \in 1..Len(log_dirs) : ~isdir(log_dirs[i])
    \/ percent < MinPercent
    \/ percent > MaxPercent

\* C12: argument validation precedes every side effect.  A run whose
\* command line names a path that is not an existing directory, or a
\* percentage outside 1..99, is over after its first step with status 1:
\* no disk probe, no scan, no gate evaluation and no removal has happened.
ArgumentValidation ==
    (BadArguments /\ pc # "start") =>
        /\ pc = "done"
        /\ exit_status = 1
        /\ initial = <<>>
        /\ log_files = <<>>
        /\ gate.idx = 0
        /\ visited = <<>>
        /\ removed = <<>>

\* C13: unknown disk usage is never treated as under the threshold.  A run
\* that ended with "no cleanup needed" has sampled at least one root
\* successfully, and a loop that stopped at a file did so on a root whose
\* probe succeeded with a usage at or under the threshold.
UnknownUsageNotUnder ==
    version # "v1" =>
        /\ message = "nocleanup" => initial # <<>>
        /\ \A k \in 1..Len(visited) :
               visited[k].outcome = "Stopped" =>
                   \E i \in 1..Len(log_dirs) :
                       /\ get_disk_usage(log_dirs[i]).ok
                       /\ AtOrUnder(get_disk_usage(log_dirs[i]), percent)

\* Names with a date suffix after ".log", with and without the hour: of
\* this century, and of the last.
Rotated20 ==
    { stem \o LogExt \o Date20 \o h : stem \in Stems, h \in {<<>>, Hour} }
RotatedOther ==
    { stem \o LogExt \o Date19 \o h : stem \in Stems, h \in {<<>>, Hour} }

\* C14: the classifier covers date-suffix rotation in every mode.  Each of
\* the three scanners takes <name>.log.20YY-MM-DD and
\* <name>.log.20YY-MM-DD-HH for a managed log file, and does not take the
\* same name with a year outside 20xx for one.
ClassifierDateSuffix ==
    classified # "unknown" =>
        /\ fname \in Rotated20 => classified = "log"
        /\ fname \in RotatedOther => classified = "other"

RECURSIVE Entries(_, _)
\* The number of list entries the roots dirs give for the files S: each
\* file once for every root it lies beneath.
Entries(dirs, S) ==
    IF dirs = <<>> THEN 0
    ELSE Cardinality({ f \in S : Beneath(DirOf(f), Head(dirs)) })
             + Entries(Tail(dirs), S)

\* C15: repeated quota runs.  When the quota program is run again with the
\* same command line after a run that removed files, the scan of the second
\* run lists only files still in place; its totalCount is the count of
\* those (smaller than the first run's), keepCount is
\* floor(totalCount * keepPercent / 100) and deleteCount the rest; and no
\* file removed by the first run is in its deletion set.
QuotaRepeat ==
    [][ (version = "v1" /\ run = 2 /\ removed # <<>>
           /\ pc = "scan" /\ pc' # "scan") =>
            LET total == Len(log_files')
                del == Len(todo')
                keep == total - del
                gone == { removed[i] : i \in 1..Len(removed) }
            IN  /\ total = Entries(log_dirs, exists)
                /\ total < Entries(log_dirs, Files)
                /\ \A i \in 1..total : Resolve(log_files'[i][2]) \in exists
                /\ total > 0 =>
                       /\ keep * 100 <= total * percent
                       /\ total * percent < (keep + 1) * 100
                       /\ todo' = SubSeq(log_files', keep + 1, total)
                /\ \A j \in 1..del : Resolve(todo'[j][2]) \notin gone
      ]_vars

\* A quota run that removed one of two files, followed by a second run
\* that found the one file left and removed it.
QuotaRepeatWitness ==
    /\ version = "v1"
    /\ run = 2
    /\ pc = "done"
    /\ Len(log_files) = 1
    /\ Len(removed) = 2

\* C16: quota mode leaves the kept files in place.  In a live quota run
\* every removed file is named in the upfront deletion set and is removed
\* once, and when the run has ended every one of the keepCount newest
\* candidates is still in place.
QuotaKeepsNewest ==
    (version = "v1" /\ run = 1) =>
        /\ \A i \in 1..Len(removed) :
               /\ \E j \in 1..Len(todo) : Resolve(todo[j][2]) = removed[i]
               /\ \A k \in 1..Len(removed) : removed[k] = removed[i] => k = i
        /\ pc = "done" =>
               \A i \in 1..Len(Kept) : Resolve(Kept[i][2]) \in exists

\* C17: the stop decision uses the owning root only.  When the threshold
\* loop has stopped at a file, a configured root that the file lies beneath
\* has a usage at or under the threshold.
StopByOwner ==
    version # "v1" =>
        \A k \in 1..Len(visited) :
            visited[k].outcome = "Stopped" =>
                \E i \in 1..Len(log_dirs) :
                    /\ Beneath(DirOf(visited[k].file), log_dirs[i])
                    /\ get_disk_usage(log_dirs[i]).ok
                    /\ AtOrUnder(get_disk_usage(log_dirs[i]), percent)

\* C18: how the threshold loop ends.  The loop takes the candidates in
\* list order, each once; and once it has ended, either it stopped at a
\* candidate on a usage sample at or under the threshold, or it went
\* through the whole list.
LoopEndsProperly ==
    (version # "v1" /\ todo # <<>>) =>
        /\ Len(visited) <= Len(todo)
        /\ \A k \in 1..Len(visited) : visited[k].path = todo[k][2]
        /\ pc \in {"finish", "done"} =>
               \/ idx > Len(todo)
               \/ /\ visited # <<>>
                  /\ visited[Len(visited)].outcome = "Stopped"

\* C19: the outcome for a vanished file.  A candidate that is no longer in
\* place when the loop comes to it gets the outcome NotFound: it is not
\* skipped as recent or in use, not recorded as failed and not counted as
\* deleted.
VanishedIsNotFound ==
    \A k \in 1..Len(visited) :
        ~visited[k].present =>
            /\ visited[k].outcome = "NotFound"
            /\ ~visited[k].counted
            /\ \A i \in 1..Len(skipped_files) :
                   skipped_files[i][1] # visited[k].path
            /\ \A i \in 1..Len(failed_files) :
                   failed_files[i] # visited[k].path

\* C20: the recency check, its boundary and its fail-safe.  At the gate a
\* file in place is blocked as recent exactly when it was modified less
\* than 24 hours ago (one modified exactly 24 hours ago is not); a file
\* whose modification time cannot be read is blocked as recent; and a file
\* blocked as recent is not removed: the loop moves past it.
RecencyBoundary ==
    [][ (pc = "gate" /\ env_left' = env_left) =>
            LET p == todo[idx][2]
                f == Resolve(p)
                blocked == skipped_files' = Append(skipped_files, <<p, "recent">>)
            IN  /\ f \in exists => (blocked <=> Now - mtime[f] < Hours)
                /\ f \notin exists => blocked
                /\ blocked =>
                       /\ pc' # "delete"
                       /\ idx' = idx + 1
                       /\ removed' = removed
                       /\ exists' = exists
      ]_vars

\* A threshold run that blocked a file whose modification time could not
\* be read and removed one modified exactly 24 hours ago.
RecencyBoundaryWitness ==
    /\ version # "v1"
    /\ \E j \in 1..Len(visited) :
          /\ visited[j].outcome = "SkippedRecent"
          /\ ~visited[j].present
    /\ \E k \in 1..Len(visited) :
          /\ visited[k].outcome = "Deleted"
          /\ Now - mtime[visited[k].file] = Hours

\* The in-use check has just run on the candidate at hand: the run is at
\* the gate, the candidate is at least 24 hours old, and the program steps.
InUseChecked ==
    /\ pc = "gate"
    /\ pc' # "gate" \/ idx' # idx
    /\ ~is_file_recent(todo[idx][2])

\* C21: in-use check fallback order.  Whenever a threshold run checks a
\* candidate for holders, the candidate is skipped as in use exactly when
\* lsof is available and reports a holder, or lsof is unavailable and fuser
\* is available and reports a holder; fuser is run only when lsof is
\* unavailable; and in every other case, both commands unavailable included,
\* the candidate stays eligible and goes on to deletion: the check never
\* ends the run with an error.
InUseFallback ==
    [][InUseChecked =>
         LET p == todo[idx][2]
             held == Resolve(p) \in exists /\ Resolve(p) \in in_use
             expected == \/ lsof = "ok" /\ held
                         \/ lsof # "ok" /\ fuser = "ok" /\ held
         IN  /\ gate'.consulted = IF lsof = "ok" THEN <<"lsof">>
                                  ELSE <<"lsof", "fuser">>
             /\ exit_status' = NotExited
             /\ IF expected
                THEN skipped_files' = Append(skipped_files, <<p, "in_use">>)
                ELSE pc' = "delete" /\ skipped_files' = skipped_files]_vars

\* C22: a disk probe failure is a value, not a crash.  In a threshold run
\* a root whose filesystem cannot be statted, or reports a total of zero
\* bytes, gives "usage unknown" and the run goes on: no probe, at the
\* initial check, inside the deletion loop or in the final report, ends the
\* run with an unhandled error.
ProbeFailureIsValue ==
    (version # "v1" /\ \E i \in 1..Len(log_dirs) :
                           ~get_disk_usage(log_dirs[i]).ok)
        => message # "traceback"

\* C23: scan resilience.  Whenever the scan step of a run completes, the run
\* has not been aborted by an error, and the candidate list names every
\* managed log file that is in place under the configured roots at that
\* moment: an entry that disappeared while the scan was in progress is
\* skipped and costs neither the scan nor the run.
ScanResilience ==
    [][ (pc = "scan" /\ pc' # "scan") =>
            /\ exit_status' \in {NotExited, 0}
            /\ \A f \in exists' :
                   (\E i \in 1..Len(log_dirs) : Beneath(DirOf(f), log_dirs[i]))
                       => \E k \in 1..Len(log_files') :
                              Resolve(log_files'[k][2]) = f
      ]_vars

\* C24: quota mode always selects at least one file.  For every keep
\* percentage from 1 to 99 and every non-empty candidate list (of the run,
\* and of any length up to MaxTotal), keepCount is smaller than totalCount
\* and deleteCount is at least 1; so a quota run never ends at the "nothing
\* to delete" exit, and a candidate list of a single file is the deletion
\* list.
QuotaSelectsSome ==
    version = "v1" =>
        /\ message # "nothing"
        /\ (percent >= MinPercent /\ percent <= MaxPercent) =>
               \A total \in 1..MaxTotal :
                   /\ keep_count(total, percent) < total
                   /\ delete_count(total, percent) >= 1
        /\ log_files # <<>> =>
               /\ Len(todo) >= 1
               /\ Len(todo) = delete_count(Len(log_files), percent)
               /\ Len(log_files) = 1 => todo = log_files

\* A quota run keeping 99% over a root with one file removed that file.
QuotaSelectsSomeWitness ==
    /\ version = "v1"
    /\ percent = MaxPercent
    /\ Len(log_files) = 1
    /\ pc = "done"
    /\ removed = <<Resolve(log_files[1][2])>>

\* C25: confirmation precedes deletion.  In a live run (no --dry-run)
\* without --auto-confirm: a file has been removed only if the confirmation
\* was asked and answered yes; after an answer of no, or an interrupt, the
\* run has ended and removed nothing; and the confirmation has been asked
\* at most once.
ConfirmationPrecedesDeletion ==
    (~dry_run /\ ~auto_confirm) =>
        /\ removed # <<>> => \E k \in 1..Len(asked) : asked[k] = "y"
        /\ (\E k \in 1..Len(asked) : asked[k] # "y")
               => (pc = "done" /\ removed = <<>>)
        /\ Len(asked) <= 1

====
